---- MODULE Spec2Model ----
(***************************************************************************)
(* Client-side processing pipeline of iknowpdf: RateLimiter,               *)
(* validateFile / SecurityValidator, ProgressTracker, ErrorHandler and     *)
(* FileProcessor, as listed in docs/IMPLEMENTATION_PLAN.md.                *)
(***************************************************************************)
EXTENDS Integers, Sequences, FiniteSets, TLC

(***************************************************************************)
(* Bounds of the model                                                     *)
(***************************************************************************)
\* processFile calls that can be in flight together
NumCalls == 1
\* pages of a PDF handed to processPDFToWord
MaxPages == 1
\* number of clock advances in a run
MaxTicks == 1
\* stored timestamps of the secondary identifier
MaxOther == 1
\* rejected calls counted past the cap inside one window
MaxExtra == 2
\* validateFile calls made in a row with the same arguments
MaxValCalls == 2
\* processing attempts made in the tool interface
MaxAttempts == 1
\* files in the tool interface's list
MaxFiles == 2
\* firings of the simulated-progress interval timers
MaxIntervalTicks == 2

(***************************************************************************)
(* RateLimiter                                                             *)
(***************************************************************************)
maxRequests == 50
windowMs == 15 * 60 * 1000

Identifiers == {"u1", "u2"}
\* the identifier whose number of requests the model does not bound
Primary == "u1"
\* clock advances between two calls (Date.now() differences)
Deltas == {windowMs - 1, windowMs, windowMs + 1}

VARIABLES
    now,        \* Date.now()
    ticks,      \* clock advances so far
    requests,   \* RateLimiter.requests : identifier -> list of timestamps
    rlCall,     \* the rate-limiter call that returned last
    winStart,   \* per identifier: start of the window opened from empty
    winCalls,   \* per identifier: isAllowed calls made in that window
    exhausted,  \* per identifier: the last isAllowed call returned false
    allowedLog, \* per identifier: times of the calls that returned true,
                \* those of the last windowMs
    lastReject  \* per identifier: time of the rejection made last with no
                \* allowed call since, and what getResetTime returned then

VARIABLES
    calls,              \* per processFile call: position, arguments, outcome
    progressCallbacks   \* FileProcessor.progressTracker.progressCallbacks

VARIABLES
    ptCallbacks,   \* progressTracker.progressCallbacks (the exported tracker)
    ptCall,        \* the tracker call that returned last
    ptLast,        \* per job id: the last of track, complete, remove called
    ptTracked,     \* per job id: the callback of the last trackProgress
    ptReplaced     \* per job id: callbacks a later trackProgress replaced

VARIABLES
    valCall,       \* the validateFile call that returned last
    contentCall    \* the validateFileContent call that resolved last

rlVars == <<now, ticks, requests, rlCall, winStart, winCalls, exhausted,
           allowedLog, lastReject>>

fpVars == <<calls, progressCallbacks>>

ptVars == <<ptCallbacks, ptCall, ptLast, ptTracked, ptReplaced>>

VARIABLES
    uiFiles,       \* EnhancedToolInterface: the files state
    uiProgress,    \* EnhancedToolInterface: the progress state
    uiAttempts,    \* per handleProcess call: position, gate, job, outcome
    uiJobs,        \* useProcessingStore: jobs, by job id
    uiTimers,      \* job ids whose progress interval timer is running
    uiTicks        \* interval firings so far

valVars == <<valCall, contentCall>>

uiVars == <<uiFiles, uiProgress, uiAttempts, uiJobs, uiTimers, uiTicks>>

vars == <<now, ticks, requests, rlCall, winStart, winCalls, exhausted,
          allowedLog, lastReject,
          calls, progressCallbacks, ptCallbacks, ptCall, ptLast, ptTracked,
          ptReplaced,
          valCall, contentCall,
          uiFiles, uiProgress, uiAttempts, uiJobs, uiTimers, uiTicks>>

\* op/id: the call; ok: isAllowed's result; val: the number returned by a
\* query; at: Date.now() of the call; pre: the identifier's stored list before
\* no rejection on record
NoReject == [at |-> -1, reset |-> -1]

\* the call; k: see CallIndex; afterReject: exhausted[id] before the call;
\* retryOf: lastReject[id] before the call
NoCall ==
    [op |-> "none", id |-> "none", ok |-> FALSE, val |-> 0, at |-> 0,
     pre |-> <<>>, k |-> 0, afterReject |-> FALSE, retryOf |-> NoReject]

MinOf(a, b) == IF a <= b THEN a ELSE b
MaxOf(a, b) == IF a >= b THEN a ELSE b

\* Math.min(...userRequests) of a non-empty list
RECURSIVE SeqMin(_)
SeqMin(s) == IF Len(s) = 1 THEN s[1] ELSE MinOf(s[1], SeqMin(Tail(s)))

\* userRequests.filter(timestamp => now - timestamp < this.windowMs)
ValidRequestsNoPrune(userRequests, t) == userRequests
ValidRequestsShortWindow(userRequests, t) ==
    SelectSeq(userRequests, LAMBDA timestamp : t - timestamp < windowMs - 1)
ValidRequests(userRequests, t) ==
    SelectSeq(userRequests, LAMBDA timestamp : t - timestamp < windowMs)

\* validRequests.length >= this.maxRequests
AtCapOffByOne(validRequests) == Len(validRequests) > maxRequests
AtCap(validRequests) == Len(validRequests) >= maxRequests

\* the list stored by a call that returns false (none: the map is not written)
RejectedStoreRecords(userRequests, validRequests, t) == Append(validRequests, t)
RejectedStore(userRequests, validRequests, t) == userRequests

\* validRequests.push(now); this.requests.set(identifier, validRequests)
AllowedStoreUnpruned(userRequests, validRequests, t) == Append(userRequests, t)
AllowedStore(userRequests, validRequests, t) == Append(validRequests, t)

\* RateLimiter.getResetTime
ResetTimeNoWindow(userRequests, t) ==
    IF Len(userRequests) = 0 THEN 0 ELSE SeqMin(userRequests)
ResetTimeNewest(userRequests, t) ==
    IF Len(userRequests) = 0 THEN 0
    ELSE userRequests[Len(userRequests)] + windowMs
ResetTimeOf(userRequests, t) ==
    IF Len(userRequests) = 0 THEN 0
    ELSE SeqMin(userRequests) + windowMs

\* RateLimiter.getRemainingRequests
RemainingOf(userRequests, t) ==
    MaxOf(0, maxRequests - Len(ValidRequests(userRequests, t)))

\* every entry of list s is at least one window older than time t
AllElapsed(s, t) == \A i \in 1..Len(s) : t - s[i] >= windowMs

\* position of an isAllowed call inside the window that the identifier opened
\* with no request of the last windowMs on record; 0 outside such a window
CallIndex(id, userRequests) ==
    IF AllElapsed(userRequests, now) THEN 1
    ELSE IF winStart[id] >= 0 /\ now - winStart[id] < windowMs /\ winCalls[id] > 0
         THEN MinOf(winCalls[id] + 1, maxRequests + MaxExtra)
         ELSE 0

\* the times of list s that lie less than windowMs before time t
Recent(s, t) == SelectSeq(s, LAMBDA x : x > t - windowMs)

\* RateLimiter.isAllowed(identifier)
IsAllowedStep(id) ==
    LET userRequests == requests[id]
        validRequests == ValidRequests(userRequests, now)
        k == CallIndex(id, userRequests)
    IN /\ id = Primary \/ Len(userRequests) < MaxOther
       /\ IF AtCap(validRequests)
          THEN /\ requests' = [requests EXCEPT
                     ![id] = RejectedStore(userRequests, validRequests, now)]
               /\ rlCall' = [op |-> "isAllowed", id |-> id, ok |-> FALSE,
                             val |-> 0, at |-> now, pre |-> userRequests,
                             k |-> k, afterReject |-> exhausted[id],
                             retryOf |-> lastReject[id]]
               /\ exhausted' = [exhausted EXCEPT ![id] = TRUE]
               /\ allowedLog' = allowedLog
               /\ lastReject' = [lastReject EXCEPT ![id] =
                     IF @.at = now THEN @ ELSE [at |-> now, reset |-> -1]]
          ELSE /\ requests' = [requests EXCEPT
                     ![id] = AllowedStore(userRequests, validRequests, now)]
               /\ rlCall' = [op |-> "isAllowed", id |-> id, ok |-> TRUE,
                             val |-> 0, at |-> now, pre |-> userRequests,
                             k |-> k, afterReject |-> exhausted[id],
                             retryOf |-> lastReject[id]]
               /\ exhausted' = [exhausted EXCEPT ![id] = FALSE]
               /\ allowedLog' = [allowedLog EXCEPT
                     ![id] = Append(Recent(@, now), now)]
               /\ lastReject' = [lastReject EXCEPT ![id] = NoReject]
       /\ winStart' = [winStart EXCEPT
              ![id] = IF k = 1 THEN now
                      ELSE IF k = 0 THEN -1 ELSE @]
       /\ winCalls' = [winCalls EXCEPT ![id] = k]
       /\ UNCHANGED <<now, ticks>>

\* a caller that does nothing but call isAllowed
IsAllowed(id) ==
    /\ IsAllowedStep(id)
    /\ UNCHANGED <<fpVars, ptVars, valVars, uiVars>>

\* RateLimiter.getRemainingRequests(identifier)
GetRemainingRequests(id) ==
    /\ rlCall' = [op |-> "getRemainingRequests", id |-> id, ok |-> FALSE,
                  val |-> RemainingOf(requests[id], now),
                  at |-> now, pre |-> requests[id], k |-> 0,
                  afterReject |-> FALSE, retryOf |-> NoReject]
    /\ UNCHANGED <<now, ticks, requests, winStart, winCalls, exhausted,
                   allowedLog, lastReject>>
    /\ UNCHANGED <<fpVars, ptVars, valVars, uiVars>>

\* RateLimiter.getResetTime(identifier)
GetResetTime(id) ==
    /\ rlCall' = [op |-> "getResetTime", id |-> id, ok |-> FALSE,
                  val |-> ResetTimeOf(requests[id], now),
                  at |-> now, pre |-> requests[id], k |-> 0,
                  afterReject |-> FALSE, retryOf |-> NoReject]
    /\ lastReject' = [lastReject EXCEPT ![id] =
          IF @.at = now THEN [@ EXCEPT !.reset = rlCall'.val] ELSE @]
    /\ UNCHANGED <<now, ticks, requests, winStart, winCalls, exhausted,
                   allowedLog>>
    /\ UNCHANGED <<fpVars, ptVars, valVars, uiVars>>

\* the clock moves forward between two calls
Tick ==
    /\ ticks < MaxTicks
    /\ \E d \in Deltas : now' = now + d
    /\ ticks' = ticks + 1
    /\ UNCHANGED <<requests, rlCall, winStart, winCalls, exhausted,
                   allowedLog, lastReject>>
    /\ UNCHANGED <<fpVars, ptVars, valVars, uiVars>>

InitRL ==
    /\ now = 0
    /\ ticks = 0
    /\ requests = [id \in Identifiers |-> <<>>]
    /\ rlCall = NoCall
    /\ winStart = [id \in Identifiers |-> -1]
    /\ winCalls = [id \in Identifiers |-> 0]
    /\ exhausted = [id \in Identifiers |-> FALSE]
    /\ allowedLog = [id \in Identifiers |-> <<>>]
    /\ lastReject = [id \in Identifiers |-> NoReject]

NextRL ==
    \/ \E id \in Identifiers : IsAllowed(id)
    \/ \E id \in Identifiers : GetRemainingRequests(id)
    \/ \E id \in Identifiers : GetResetTime(id)
    \/ Tick

(***************************************************************************)
(* Properties of the RateLimiter                                           *)
(***************************************************************************)
IsAllowedCall == rlCall.op = "isAllowed"

\* C4: in a window that an identifier opened from an empty list, the calls of
\* isAllowed numbered 1..maxRequests return true and the next one returns false
C4_FirstFiftyThenReject ==
    (IsAllowedCall /\ rlCall.k > 0) => (rlCall.ok <=> rlCall.k <= maxRequests)

C4_Witness ==
    /\ IsAllowedCall
    /\ rlCall.k = maxRequests + 1
    /\ ~rlCall.ok
    /\ rlCall.at = winStart[rlCall.id] + windowMs - 1

\* C5: an identifier whose last isAllowed call was rejected is allowed again
\* by the first call made after every stored request is a full window old
C5_AllowedAfterWindow ==
    (IsAllowedCall /\ rlCall.afterReject /\ AllElapsed(rlCall.pre, rlCall.at))
        => rlCall.ok

C5_Witness ==
    /\ IsAllowedCall
    /\ rlCall.afterReject
    /\ Len(rlCall.pre) = maxRequests
    /\ AllElapsed(rlCall.pre, rlCall.at)
    /\ rlCall.ok

\* C6: a step whose isAllowed call returns false leaves the stored lists of
\* all identifiers as they were
C6_RejectLeavesState ==
    [][(rlCall'.op = "isAllowed" /\ ~rlCall'.ok) => requests' = requests]_vars

C6_Witness ==
    /\ IsAllowedCall
    /\ ~rlCall.ok
    /\ requests[rlCall.id] = rlCall.pre
    /\ \E other \in Identifiers \ {rlCall.id} : Len(requests[other]) > 0

\* C7: no identifier ever stores more than maxRequests timestamps
C7_ListBounded == \A id \in Identifiers : Len(requests[id]) <= maxRequests

C7_Witness ==
    /\ rlCall.op = "getRemainingRequests"
    /\ rlCall.val = 0
    /\ Len(requests[rlCall.id]) = maxRequests
    /\ ticks > 0

\* C8 as stated: getResetTime returns 0 for an identifier without entries and
\* otherwise the oldest entry still inside the trailing window plus windowMs,
\* which is later than the time of the call
C8_ResetFromTrailingWindow ==
    rlCall.op = "getResetTime" =>
        IF Len(rlCall.pre) = 0 THEN rlCall.val = 0
        ELSE /\ rlCall.val > rlCall.at
             /\ \E i \in 1..Len(rlCall.pre) :
                    /\ rlCall.at - rlCall.pre[i] < windowMs
                    /\ rlCall.val = rlCall.pre[i] + windowMs

\* C8 amended: getResetTime returns 0 for an identifier without stored
\* entries and otherwise the oldest stored entry plus windowMs, where the
\* stored list is pruned only by isAllowed calls that return true; the result
\* is later than the time of the call exactly when that oldest stored entry
\* is still inside the trailing window
C8_ResetFromStoredList ==
    rlCall.op = "getResetTime" =>
        IF Len(rlCall.pre) = 0 THEN rlCall.val = 0
        ELSE /\ \E i \in 1..Len(rlCall.pre) :
                    rlCall.val = rlCall.pre[i] + windowMs
             /\ \A i \in 1..Len(rlCall.pre) :
                    rlCall.val <= rlCall.pre[i] + windowMs
             /\ (rlCall.val > rlCall.at) <=>
                    (\A i \in 1..Len(rlCall.pre) :
                        rlCall.at - rlCall.pre[i] < windowMs)

C8_Witness ==
    /\ rlCall.op = "getResetTime"
    /\ Len(rlCall.pre) > 1
    /\ rlCall.val = rlCall.pre[1] + windowMs
    /\ rlCall.val < rlCall.at

(***************************************************************************)
(* Files                                                                   *)
(***************************************************************************)
MB == 1024 * 1024

\* a string as the sequence of its characters, n copies of character c
Repeat(c, n) == [i \in 1..n |-> c]

PdfSig == <<37, 80, 68, 70>>
JpegSig == <<255, 216, 255>>
PngSig == <<137, 80, 78, 71>>
ZipSig == <<80, 75, 3, 4>>

MimePdf == "application/pdf"
MimeDocx ==
    "application/vnd.openxmlformats-officedocument.wordprocessingml.document"
MimeXlsx == "application/vnd.openxmlformats-officedocument.spreadsheetml.sheet"

NamePdf == <<"a", ".", "p", "d", "f">>
NamePng == <<"p", ".", "p", "n", "g">>
NameExe == <<"m", ".", "E", "x", "e">>
NameTxt == <<"n", ".", "t", "x", "t">>
NameLong == Repeat("a", 252) \o <<".", "p", "d", "f">>
NameMax == Repeat("a", 251) \o <<".", "p", "d", "f">>

\* File objects handed to processFile: name, declared type, size, leading
\* bytes, and whether the FileReader can read them
MkFile(name, type, size, bytes, readable) ==
    [name |-> name, type |-> type, size |-> size, bytes |-> bytes,
     readable |-> readable]

Files ==
    { MkFile(NamePdf, MimePdf, 1024, PdfSig \o <<45, 49>>, TRUE),
      MkFile(NamePdf, MimePdf, 100 * MB, PdfSig, TRUE),
      MkFile(NamePdf, MimePdf, 100 * MB + 1, PdfSig, TRUE),
      MkFile(NameMax, MimePdf, 1024, PdfSig, TRUE),
      MkFile(NameLong, MimePdf, 1024, PdfSig, TRUE),
      MkFile(NameExe, MimePdf, 1024, PdfSig, TRUE),
      MkFile(NamePdf, MimePdf, 1024, PngSig, TRUE),
      MkFile(NamePdf, MimePdf, 1024, <<37, 80>>, TRUE),
      MkFile(NamePdf, MimePdf, 1024, PdfSig, FALSE),
      MkFile(NamePng, "image/png", 1024, PngSig, TRUE),
      MkFile(NamePng, "image/png", 50 * MB + 1, PngSig, TRUE),
      MkFile(NamePng, "image/gif", 50 * MB, <<71, 73, 70>>, TRUE),
      MkFile(NameTxt, "text/plain", 1024, <<104, 105>>, TRUE),
      MkFile(NameTxt, "*/*", 1024, <<104, 105>>, TRUE),
      MkFile(NameExe, "*/*", 100 * MB + 1, <<77, 90>>, TRUE) }

(***************************************************************************)
(* SecurityValidator, validateFile, formatBytes                            *)
(***************************************************************************)
\* signatures[mimeType]; <<>> stands for "no entry"
Signature(mimeType) ==
    CASE mimeType = MimePdf -> PdfSig
      [] mimeType = "image/jpeg" -> JpegSig
      [] mimeType = "image/png" -> PngSig
      [] mimeType = "application/zip" -> ZipSig
      [] mimeType = MimeDocx -> ZipSig
      [] mimeType = MimeXlsx -> ZipSig
      [] OTHER -> <<>>

\* buffer.slice(0, 16)
Slice16(bytes) == SubSeq(bytes, 1, MinOf(Len(bytes), 16))

\* SecurityValidator.checkMagicNumbers
CheckMagicNumbers(bytes, mimeType) ==
    LET signature == Signature(mimeType)
    IN  IF signature = <<>> THEN TRUE
        ELSE \A index \in 1..Len(signature) :
                index <= Len(bytes) /\ bytes[index] = signature[index]

\* SecurityValidator.validateFileContent: onload checks the magic numbers,
\* onerror resolves false
ValidateFileContentReadErrorPasses(file) ==
    IF file.readable THEN CheckMagicNumbers(Slice16(file.bytes), file.type)
    ELSE TRUE
ValidateFileContent(file) ==
    IF file.readable THEN CheckMagicNumbers(Slice16(file.bytes), file.type)
    ELSE FALSE

\* String.prototype.toLowerCase on the characters used in file names
LowerChar(c) ==
    CASE c = "E" -> "e" [] c = "X" -> "x" [] c = "B" -> "b" [] c = "A" -> "a"
      [] c = "T" -> "t" [] c = "C" -> "c" [] c = "M" -> "m" [] c = "D" -> "d"
      [] c = "S" -> "s" [] c = "R" -> "r" [] OTHER -> c

\* /suffix$/i.test(name)
EndsWithSameCase(name, suffix) ==
    /\ Len(name) >= Len(suffix)
    /\ \A i \in 1..Len(suffix) : name[Len(name) - Len(suffix) + i] = suffix[i]
EndsWithNoCase(name, suffix) ==
    /\ Len(name) >= Len(suffix)
    /\ \A i \in 1..Len(suffix) :
          LowerChar(name[Len(name) - Len(suffix) + i]) = suffix[i]

\* dangerousPatterns
DangerousPatterns ==
    { <<".", "e", "x", "e">>, <<".", "b", "a", "t">>,
      <<".", "c", "m", "d">>, <<".", "s", "c", "r">> }

\* Math.floor(Math.log(bytes) / Math.log(k)) for bytes >= 1
RECURSIVE LogK(_)
LogK(bytes) == IF bytes < 1024 THEN 0 ELSE 1 + LogK(bytes \div 1024)

RECURSIVE PowK(_)
PowK(i) == IF i = 0 THEN 1 ELSE 1024 * PowK(i - 1)

SizeUnits == <<"Bytes", "KB", "MB", "GB", "TB">>

\* parseFloat(x.toFixed(2)) printed, x given in hundredths
FormatHundredths(h) ==
    LET whole == ToString(h \div 100)
        frac == h % 100
    IN  IF frac = 0 THEN whole
        ELSE IF frac % 10 = 0 THEN whole \o "." \o ToString(frac \div 10)
        ELSE IF frac < 10 THEN whole \o ".0" \o ToString(frac)
        ELSE whole \o "." \o ToString(frac)

\* formatBytes(bytes), decimals = 2
FormatBytes(bytes) ==
    IF bytes = 0 THEN "0 Bytes"
    ELSE LET i == LogK(bytes)
             whole == bytes \div PowK(i)
             cents == ((bytes % PowK(i)) * 100 + PowK(i) \div 2) \div PowK(i)
         IN  FormatHundredths(whole * 100 + cents) \o " " \o SizeUnits[i + 1]

\* allowedTypes.includes(file.type)
TypeAllowedWildcard(allowedTypes, type) ==
    type \in allowedTypes \/ "*/*" \in allowedTypes
TypeAllowed(allowedTypes, type) == type \in allowedTypes

\* file.size > maxSize
TooLargeNever(size, maxSize) == FALSE
TooLarge(size, maxSize) == size > maxSize

\* validateFile(file, allowedTypes, maxSize): all four checks, errors in order
ValidateFileFirstErrorOnly(file, allowedTypes, maxSize) ==
    IF ~TypeAllowed(allowedTypes, file.type)
    THEN [isValid |-> FALSE,
          errors |-> << <<"File type ", file.type, " not supported">> >>]
    ELSE IF TooLarge(file.size, maxSize)
    THEN [isValid |-> FALSE,
          errors |-> << <<"File size exceeds ", FormatBytes(maxSize),
                          " limit">> >>]
    ELSE IF Len(file.name) > 255
    THEN [isValid |-> FALSE, errors |-> << <<"File name too long">> >>]
    ELSE IF \E pattern \in DangerousPatterns :
               EndsWithNoCase(file.name, pattern)
    THEN [isValid |-> FALSE,
          errors |-> << <<"File type not allowed for security reasons">> >>]
    ELSE [isValid |-> TRUE, errors |-> <<>>]
ValidateFile(file, allowedTypes, maxSize) ==
    LET e1 == IF ~TypeAllowed(allowedTypes, file.type)
              THEN << <<"File type ", file.type, " not supported">> >>
              ELSE <<>>
        e2 == IF TooLarge(file.size, maxSize)
              THEN << <<"File size exceeds ", FormatBytes(maxSize), " limit">> >>
              ELSE <<>>
        e3 == IF Len(file.name) > 255
              THEN << <<"File name too long">> >>
              ELSE <<>>
        e4 == IF \E pattern \in DangerousPatterns :
                    EndsWithNoCase(file.name, pattern)
              THEN << <<"File type not allowed for security reasons">> >>
              ELSE <<>>
        errors == e1 \o e2 \o e3 \o e4
    IN  [isValid |-> Len(errors) = 0, errors |-> errors]

(***************************************************************************)
(* Tool configuration                                                      *)
(***************************************************************************)
KnownTools ==
    {"pdf-to-word", "merge-pdf", "compress-pdf", "image-resize",
     "image-compress"}

ToolIds == KnownTools \cup {"unknown-tool-xyz"}

ImageTypes == {"image/jpeg", "image/png", "image/gif", "image/webp"}

\* FileProcessor.getToolConfig
GetToolConfig(toolId) ==
    CASE toolId \in {"pdf-to-word", "merge-pdf", "compress-pdf"} ->
            [allowedTypes |-> {MimePdf}, maxSize |-> 100 * MB]
      [] toolId \in {"image-resize", "image-compress"} ->
            [allowedTypes |-> ImageTypes, maxSize |-> 50 * MB]
      [] OTHER ->
            [allowedTypes |-> {"*/*"}, maxSize |-> 100 * MB]

\* FileProcessor.validateFileForTool
ValidateFileForToolNoContent(file, toolId) ==
    LET toolConfig == GetToolConfig(toolId)
    IN  ValidateFile(file, toolConfig.allowedTypes, toolConfig.maxSize)
ValidateFileForTool(file, toolId) ==
    LET toolConfig == GetToolConfig(toolId)
    IN  IF ~ValidateFileContent(file)
        THEN [isValid |-> FALSE,
              errors |-> << <<"File content validation failed">> >>]
        ELSE ValidateFile(file, toolConfig.allowedTypes, toolConfig.maxSize)

(***************************************************************************)
(* ProcessingError, ErrorHandler                                           *)
(***************************************************************************)
\* new ProcessingError(message, code, recoverable, context); "by" records the
\* place that constructed the error
MkProcessingError(message, code, recoverable, context, by) ==
    [name |-> "ProcessingError", message |-> message, code |-> code,
     recoverable |-> recoverable, context |-> context, by |-> by]

\* an Error thrown or rejected by a browser or vendor operation
MkError(name, message) == [name |-> name, message |-> message, by |-> "vendor"]

NoError == [name |-> "none", message |-> <<>>, by |-> "none"]

\* error.message.includes(word), on messages kept as lists of fragments
Includes(message, word) == \E i \in 1..Len(message) : message[i] = word

\* errors.join(', ')
RECURSIVE Join(_)
Join(errors) ==
    IF Len(errors) = 0 THEN <<>>
    ELSE IF Len(errors) = 1 THEN errors[1]
    ELSE errors[1] \o <<", ">> \o Join(Tail(errors))

\* Math.random().toString(36).substr(2, 9)
ErrorIds == {"k3x9f2a1b", "p0q8r7s6t"}

\* ErrorHandler.getUserFriendlyMessage
GetUserFriendlyMessage(error) ==
    IF error.name = "QuotaExceededError"
    THEN <<"Storage quota exceeded. Please free up space and try again.">>
    ELSE IF error.name = "NetworkError"
    THEN <<"Network connection lost. Please check your internet and retry.">>
    ELSE IF Includes(error.message, "corrupted")
    THEN <<"The file appears to be corrupted. Please try with a different file.">>
    ELSE IF Includes(error.message, "timeout")
    THEN <<"Processing timed out. Please try with a smaller file.">>
    ELSE IF Includes(error.message, "memory")
    THEN <<"Insufficient memory to process this file. Please try with a smaller file.">>
    ELSE <<"An unexpected error occurred. Please try again.">>

\* ErrorHandler.isRecoverable
NonRecoverableErrors == {"QuotaExceededError", "SecurityError", "NotSupportedError"}

IsRecoverableKeepsFlag(error) ==
    IF error.name = "ProcessingError" THEN error.recoverable
    ELSE error.name \notin NonRecoverableErrors
IsRecoverable(error) == error.name \notin NonRecoverableErrors

\* ErrorHandler.handleProcessingError(error, context), errorId being the value
\* generateErrorId() returned
HandleProcessingError(error, context, errorId) ==
    MkProcessingError(GetUserFriendlyMessage(error), errorId,
                      IsRecoverable(error), context, "ErrorHandler")

\* what the catch block of processFile throws to the caller
CatchRethrowsRaw(error, toolId, errorId) == error
CatchThrows(error, toolId, errorId) ==
    HandleProcessingError(error, "tool_" \o toolId, errorId)

\* errors a vendor or browser operation can fail with
VendorErrors ==
    { MkError("InvalidPDFException", <<"Invalid PDF structure">>),
      MkError("Error", <<"file is ", "corrupted">>),
      MkError("QuotaExceededError", <<"out of ", "memory">>),
      MkError("NetworkError", <<"worker fetch ", "timeout">>),
      MkError("SecurityError", <<"tainted canvas">>),
      MkError("NotSupportedError", <<"unsupported">>) }

(***************************************************************************)
(* ProgressTracker                                                         *)
(***************************************************************************)
RECURSIVE Gcd(_, _)
Gcd(a, b) == IF b = 0 THEN a ELSE Gcd(b, a % b)

\* progress values are numbers n/d with d > 0, kept in lowest terms
Frac(n, d) ==
    LET g == Gcd(IF n < 0 THEN -n ELSE n, d)
    IN  [n |-> n \div g, d |-> d \div g]

Num(k) == [n |-> k, d |-> 1]

\* the number NaN
NaN == [n |-> 0, d |-> 0]

IsNaN(a) == a.d = 0

LessEq(a, b) == a.n * b.d <= b.n * a.d

\* Math.min(a, b), Math.max(a, b): NaN if either argument is NaN
MathMin(a, b) ==
    IF IsNaN(a) \/ IsNaN(b) THEN NaN ELSE IF LessEq(a, b) THEN a ELSE b
MathMax(a, b) ==
    IF IsNaN(a) \/ IsNaN(b) THEN NaN ELSE IF LessEq(a, b) THEN b ELSE a

\* Math.min(100, Math.max(0, progress))
Clamp(progress) == MathMin(Num(100), MathMax(Num(0), progress))

\* progressCallbacks is a map from job id to callback
NoCallbacks == [jobId \in {} |-> "none"]

Registered(callbacks, jobId) == jobId \in DOMAIN callbacks

\* ProgressTracker.trackProgress: progressCallbacks.set(jobId, callback)
TrackProgressKeepsFirst(callbacks, jobId, callback) ==
    [j \in DOMAIN callbacks \cup {jobId} |->
        IF j \in DOMAIN callbacks THEN callbacks[j] ELSE callback]
TrackProgress(callbacks, jobId, callback) ==
    [j \in DOMAIN callbacks \cup {jobId} |->
        IF j = jobId THEN callback ELSE callbacks[j]]

\* ProgressTracker.updateProgress: the callback invocations it makes
UpdateProgress(callbacks, jobId, progress) ==
    IF Registered(callbacks, jobId)
    THEN << [callback |-> callbacks[jobId], value |-> Clamp(progress)] >>
    ELSE <<>>

\* updateProgress throws (it does not: the callback is tested before the call)
UpdateProgressThrowsUnguarded(callbacks, jobId) == ~Registered(callbacks, jobId)
UpdateProgressThrows(callbacks, jobId) == FALSE

\* a sequence of updateProgress calls for one job id
RECURSIVE UpdateAll(_, _, _)
UpdateAll(callbacks, jobId, values) ==
    IF Len(values) = 0 THEN <<>>
    ELSE UpdateProgress(callbacks, jobId, Head(values))
            \o UpdateAll(callbacks, jobId, Tail(values))

\* ProgressTracker.removeProgress / the delete of completeProgress
RemoveProgressKeeps(callbacks, jobId) == callbacks
RemoveProgress(callbacks, jobId) ==
    [j \in DOMAIN callbacks \ {jobId} |-> callbacks[j]]

\* the callback invocations of removeProgress
RemoveProgressEmits(callbacks, jobId) ==
    UpdateProgress(callbacks, jobId, Num(100))
RemoveProgressCalls(callbacks, jobId) == <<>>

\* ProgressTracker.completeProgress: updateProgress(jobId, 100), then delete
CompleteProgressCalls(callbacks, jobId) ==
    UpdateProgress(callbacks, jobId, Num(100))

CompleteProgressKeeps(callbacks, jobId) == callbacks
CompleteProgress(callbacks, jobId) == RemoveProgress(callbacks, jobId)

(***************************************************************************)
(* FileProcessor                                                           *)
(***************************************************************************)
Calls == 1..NumCalls

\* the job id generateJobId() returns for a call
JobIdOf(c) == "job" \o ToString(c)

\* processFileByTool: the routine the switch selects, "none" for the default
RoutineOfAlwaysMerge(toolId) == "mergePDFs"
RoutineOf(toolId) ==
    CASE toolId = "pdf-to-word" -> "processPDFToWord"
      [] toolId = "merge-pdf" -> "mergePDFs"
      [] toolId = "compress-pdf" -> "compressPDF"
      [] toolId = "image-resize" -> "resizeImage"
      [] toolId = "image-compress" -> "compressImage"
      [] OTHER -> "none"

RECURSIVE PageOps(_)
PageOps(n) ==
    IF n = 0 THEN <<>>
    ELSE PageOps(n - 1) \o <<"pdf.getPage", "page.getTextContent">>

\* the operations a routine waits for, in order
RoutineOps(routine, numPages) ==
    CASE routine = "processPDFToWord" ->
            <<"file.arrayBuffer", "pdfjs.getDocument">> \o PageOps(numPages)
      [] routine = "mergePDFs" ->
            <<"PDFDocument.create", "file.arrayBuffer", "PDFDocument.load",
              "mergedPdf.copyPages", "mergedPdf.save">>
      [] routine = "compressPDF" ->
            <<"file.arrayBuffer", "PDFDocument.load", "pdf.save">>
      [] routine \in {"resizeImage", "compressImage"} ->
            <<"canvas.getContext", "img.onload", "canvas.toBlob",
              "blob.arrayBuffer">>
      [] OTHER -> <<>>

\* the errors with which an awaited operation can fail
OpErrors(op) ==
    CASE op = "canvas.getContext" ->
            {MkError("Error", <<"Canvas context not available">>)}
      [] op = "img.onload" -> {MkError("Error", <<"Failed to load image">>)}
      [] op = "canvas.toBlob" -> {MkError("Error", <<"Failed to create blob">>)}
      [] OTHER -> VendorErrors

\* the ProcessedFile a routine returns (mimeType only; buffer, fileName and
\* size are the vendor library's output)
ResultOf(routine) ==
    [routine |-> routine,
     mimeType |-> CASE routine = "processPDFToWord" -> "text/html"
                    [] routine = "resizeImage" -> "image/png"
                    [] routine = "compressImage" -> "image/jpeg"
                    [] OTHER -> MimePdf]

NoValidation == [isValid |-> TRUE, errors |-> <<>>]
NoFile == MkFile(<<>>, "", 0, <<>>, TRUE)
NoOutcome == [kind |-> "none"]

IdleCall ==
    [pc |-> "idle", file |-> NoFile, toolId |-> "none", numPages |-> 0,
     validation |-> NoValidation, invoked |-> <<>>, stage |-> 0,
     hung |-> FALSE, thrown |-> NoError, outcome |-> NoOutcome,
     delivered |-> <<>>, emitted |-> <<>>]

\* the progress values a routine reports when it is called, before its first
\* await
ProgressAtCallHigh(routine) == <<Num(40)>>
ProgressAtCall(routine) == <<Num(10)>>

\* the progress values a routine reports after its k-th awaited operation
ProgressAfter(routine, numPages, k) ==
    CASE routine = "processPDFToWord" ->
            IF k = 1 THEN <<Num(30)>>
            ELSE IF k = 2
                 THEN <<Num(50)>> \o (IF numPages = 0 THEN <<Num(95)>> ELSE <<>>)
            ELSE IF k % 2 = 1 THEN <<>>
            ELSE LET i == (k - 2) \div 2
                 IN  <<Frac(50 * numPages + 40 * i, numPages)>>
                        \o (IF i = numPages THEN <<Num(95)>> ELSE <<>>)
      [] routine = "mergePDFs" ->
            IF k = 4 THEN <<Frac(10 * 1 + 80 * (0 + 1), 1)>> ELSE <<>>
      [] routine = "compressPDF" ->
            IF k = 1 THEN <<Num(30)>>
            ELSE IF k = 2 THEN <<Num(60)>>
            ELSE <<Num(90)>>
      [] routine = "resizeImage" ->
            IF k = 2 THEN <<Num(50), Num(80)>> ELSE <<>>
      [] routine = "compressImage" ->
            IF k = 2 THEN <<Num(40), Num(70)>> ELSE <<>>
      [] OTHER -> <<>>

\* processFileByTool: the routines one call of the switch invokes
InvokedFallsThrough(routine) ==
    IF routine = "none" THEN <<>> ELSE <<routine, "mergePDFs">>
InvokedBy(routine) == IF routine = "none" THEN <<>> ELSE <<routine>>

\* pdf.numPages of the file, which only processPDFToWord reads
PagesRead(toolId, numPages) ==
    IF RoutineOf(toolId) = "processPDFToWord" THEN numPages ELSE 0

\* processFile(file, toolId, options): generateJobId, then validateFileForTool
\* starts reading the file
ProcessFile(c, file, toolId, numPages) ==
    /\ calls[c].pc = "idle"
    /\ calls' = [calls EXCEPT ![c] =
          [IdleCall EXCEPT !.pc = "validating", !.file = file,
                           !.toolId = toolId,
                           !.numPages = PagesRead(toolId, numPages)]]
    /\ UNCHANGED progressCallbacks
    /\ UNCHANGED <<rlVars, ptVars, valVars, uiVars>>

\* the validation result #validation# makes processFile throw
ThrowsOnInvalidNever(validation) == FALSE
ThrowsOnInvalid(validation) == ~validation.isValid

\* validateFileForTool resolves; processFile throws VALIDATION_ERROR into its
\* catch block, or emits progress 0 and calls processFileByTool, whose switch
\* calls the routine (which runs up to its first await) or throws
ValidationDone(c) ==
    LET call == calls[c]
        validation == ValidateFileForTool(call.file, call.toolId)
        routine == RoutineOf(call.toolId)
    IN  /\ call.pc = "validating"
        /\ IF ThrowsOnInvalid(validation)
           THEN \E errorId \in ErrorIds :
                  LET error == MkProcessingError(Join(validation.errors),
                                   "VALIDATION_ERROR", TRUE, "file_validation",
                                   "processFile")
                  IN  /\ calls' = [calls EXCEPT ![c] =
                            [call EXCEPT !.pc = "failed",
                                !.validation = validation,
                                !.thrown = error,
                                !.outcome = [kind |-> "rejected",
                                    error |-> CatchThrows(error, call.toolId,
                                                          errorId)]]]
                      /\ progressCallbacks' =
                            RemoveProgress(progressCallbacks, JobIdOf(c))
           ELSE /\ calls' = [calls EXCEPT ![c] =
                      [call EXCEPT !.pc = "processing",
                          !.validation = validation,
                          !.invoked = InvokedBy(routine),
                          !.delivered =
                             UpdateAll(progressCallbacks, JobIdOf(c),
                                <<Num(0)>> \o
                                (IF routine = "none" THEN <<>>
                                 ELSE ProgressAtCall(routine))),
                          !.emitted =
                             <<Num(0)>> \o
                                (IF routine = "none" THEN <<>>
                                 ELSE ProgressAtCall(routine)),
                          !.thrown =
                             IF routine = "none"
                             THEN MkProcessingError(
                                     <<"Tool ", call.toolId, " not implemented">>,
                                     "TOOL_NOT_FOUND", FALSE, "tool_processing",
                                     "processFileByTool")
                             ELSE NoError]]
                /\ UNCHANGED progressCallbacks
        /\ UNCHANGED <<rlVars, ptVars, valVars, uiVars>>

\* the promise of processFileByTool rejects with the error its default branch
\* threw; the catch block of processFile wraps it
DispatchRejected(c) ==
    LET call == calls[c]
    IN  /\ call.pc = "processing"
        /\ call.thrown # NoError
        /\ \E errorId \in ErrorIds :
              calls' = [calls EXCEPT ![c] =
                 [call EXCEPT !.pc = "failed",
                     !.outcome = [kind |-> "rejected",
                         error |-> CatchThrows(call.thrown, call.toolId,
                                               errorId)]]]
        /\ progressCallbacks' = RemoveProgress(progressCallbacks, JobIdOf(c))
        /\ UNCHANGED <<rlVars, ptVars, valVars, uiVars>>

\* the operation the routine of call c is waiting for
CurrentOp(call) ==
    RoutineOps(call.invoked[1], call.numPages)[call.stage + 1]

Running(call) ==
    /\ call.pc = "processing"
    /\ call.thrown = NoError
    /\ ~call.hung
    /\ Len(call.invoked) > 0

\* the awaited operation succeeds; after the last one the routine returns its
\* ProcessedFile and processFile completes the progress and returns it
RoutineStep(c) ==
    LET call == calls[c]
        ops == RoutineOps(call.invoked[1], call.numPages)
        progress == ProgressAfter(call.invoked[1], call.numPages,
                                  call.stage + 1)
        reported == UpdateAll(progressCallbacks, JobIdOf(c), progress)
    IN  /\ Running(call)
        /\ IF call.stage + 1 < Len(ops)
           THEN /\ calls' = [calls EXCEPT ![c] =
                      [call EXCEPT !.stage = call.stage + 1,
                          !.delivered = call.delivered \o reported,
                          !.emitted = call.emitted \o progress]]
                /\ UNCHANGED progressCallbacks
           ELSE /\ calls' = [calls EXCEPT ![c] =
                      [call EXCEPT !.pc = "completed",
                          !.stage = call.stage + 1,
                          !.delivered = call.delivered \o reported \o
                             CompleteProgressCalls(progressCallbacks,
                                                   JobIdOf(c)),
                          !.emitted = call.emitted \o progress \o <<Num(100)>>,
                          !.outcome = [kind |-> "resolved",
                                       result |-> ResultOf(call.invoked[1])]]]
                /\ progressCallbacks' =
                      CompleteProgress(progressCallbacks, JobIdOf(c))
        /\ UNCHANGED <<rlVars, ptVars, valVars, uiVars>>

\* the awaited operation fails with error e: the routine's promise rejects and
\* the catch block of processFile wraps the error; a rejection of
\* blob.arrayBuffer() has no handler and leaves the routine's promise pending
RoutineFail(c) ==
    LET call == calls[c]
    IN  /\ Running(call)
        /\ IF CurrentOp(call) = "blob.arrayBuffer"
           THEN /\ calls' = [calls EXCEPT ![c] = [call EXCEPT !.hung = TRUE]]
                /\ UNCHANGED progressCallbacks
           ELSE \E e \in OpErrors(CurrentOp(call)), errorId \in ErrorIds :
                  /\ calls' = [calls EXCEPT ![c] =
                        [call EXCEPT !.pc = "failed",
                            !.thrown = e,
                            !.outcome = [kind |-> "rejected",
                                error |-> CatchThrows(e, call.toolId,
                                                      errorId)]]]
                  /\ progressCallbacks' =
                        RemoveProgress(progressCallbacks, JobIdOf(c))
        /\ UNCHANGED <<rlVars, ptVars, valVars, uiVars>>

\* the caller has taken the settled promise's value; the slot serves the
\* next call
CallSettled(c) ==
    /\ calls[c].pc \in {"completed", "failed"}
    /\ calls' = [calls EXCEPT ![c] = IdleCall]
    /\ UNCHANGED progressCallbacks
    /\ UNCHANGED <<rlVars, ptVars, valVars, uiVars>>

Callbacks == {"cb1", "cb2"}

\* a subscriber that knows the job id of a call in flight registers its
\* callback for it in the processor's tracker
Subscriber == "cb1"

Subscribe(c) ==
    /\ calls[c].pc \in {"validating", "processing"}
    /\ ~Registered(progressCallbacks, JobIdOf(c))
    /\ progressCallbacks' =
          TrackProgress(progressCallbacks, JobIdOf(c), Subscriber)
    /\ UNCHANGED calls
    /\ UNCHANGED <<rlVars, ptVars, valVars, uiVars>>

InitFP ==
    /\ calls = [c \in Calls |-> IdleCall]
    /\ progressCallbacks = NoCallbacks

NextFP ==
    \/ \E c \in Calls, file \in Files, toolId \in ToolIds,
          numPages \in 1..MaxPages : ProcessFile(c, file, toolId, numPages)
    \/ \E c \in Calls : ValidationDone(c)
    \/ \E c \in Calls : DispatchRejected(c)
    \/ \E c \in Calls : RoutineStep(c)
    \/ \E c \in Calls : RoutineFail(c)
    \/ \E c \in Calls : CallSettled(c)

(***************************************************************************)
(* The exported progressTracker and its callers                            *)
(***************************************************************************)
JobIds == {"job1", "job2"}

\* progress arguments: beyond both ends, both ends, inside, a page fraction,
\* and the number NaN
Progresses ==
    {Num(150), Num(0 - 10), Num(0), Num(100), Num(42),
     Frac(50 * 3 + 40 * 1, 3), NaN}

NoPtCall ==
    [op |-> "none", jobId |-> "none", callback |-> "none", progress |-> Num(0),
     pre |-> NoCallbacks, invoked |-> <<>>, threw |-> FALSE,
     last |-> [j \in JobIds |-> "none"],
     tracked |-> [j \in JobIds |-> "none"],
     replaced |-> [j \in JobIds |-> {}]]

\* the record of a tracker call: its arguments, the registrations and the
\* history before it, and the callback invocations it made
PtCallOf(op, jobId, callback, progress, invoked, threw) ==
    [op |-> op, jobId |-> jobId, callback |-> callback, progress |-> progress,
     pre |-> ptCallbacks, invoked |-> invoked, threw |-> threw,
     last |-> ptLast, tracked |-> ptTracked, replaced |-> ptReplaced]

\* progressTracker.trackProgress(jobId, callback)
PTTrackProgress(jobId, callback) ==
    /\ ptCallbacks' = TrackProgress(ptCallbacks, jobId, callback)
    /\ ptCall' = PtCallOf("trackProgress", jobId, callback, Num(0), <<>>, FALSE)
    /\ ptLast' = [ptLast EXCEPT ![jobId] = "tracked"]
    /\ ptTracked' = [ptTracked EXCEPT ![jobId] = callback]
    /\ ptReplaced' = [ptReplaced EXCEPT ![jobId] =
          IF ptLast[jobId] = "tracked"
          THEN (@ \cup {ptTracked[jobId]}) \ {callback}
          ELSE @ \ {callback}]
    /\ UNCHANGED <<rlVars, fpVars, valVars, uiVars>>

\* progressTracker.updateProgress(jobId, progress)
PTUpdateProgress(jobId, progress) ==
    LET threw == UpdateProgressThrows(ptCallbacks, jobId)
    IN  /\ ptCall' = PtCallOf("updateProgress", jobId, "none", progress,
                        IF threw THEN <<>>
                        ELSE UpdateProgress(ptCallbacks, jobId, progress),
                        threw)
        /\ UNCHANGED <<ptCallbacks, ptLast, ptTracked, ptReplaced>>
        /\ UNCHANGED <<rlVars, fpVars, valVars, uiVars>>

\* progressTracker.completeProgress(jobId)
PTCompleteProgress(jobId) ==
    /\ ptCallbacks' = CompleteProgress(ptCallbacks, jobId)
    /\ ptCall' = PtCallOf("completeProgress", jobId, "none", Num(100),
                    CompleteProgressCalls(ptCallbacks, jobId), FALSE)
    /\ ptLast' = [ptLast EXCEPT ![jobId] = "completed"]
    /\ UNCHANGED <<ptTracked, ptReplaced>>
    /\ UNCHANGED <<rlVars, fpVars, valVars, uiVars>>

\* progressTracker.removeProgress(jobId)
PTRemoveProgress(jobId) ==
    /\ ptCallbacks' = RemoveProgress(ptCallbacks, jobId)
    /\ ptCall' = PtCallOf("removeProgress", jobId, "none", Num(0),
                    RemoveProgressCalls(ptCallbacks, jobId), FALSE)
    /\ ptLast' = [ptLast EXCEPT ![jobId] = "removed"]
    /\ UNCHANGED <<ptTracked, ptReplaced>>
    /\ UNCHANGED <<rlVars, fpVars, valVars, uiVars>>

InitPT ==
    /\ ptCallbacks = NoCallbacks
    /\ ptCall = NoPtCall
    /\ ptLast = [j \in JobIds |-> "none"]
    /\ ptTracked = [j \in JobIds |-> "none"]
    /\ ptReplaced = [j \in JobIds |-> {}]

NextPT ==
    \/ \E jobId \in JobIds, callback \in Callbacks :
          PTTrackProgress(jobId, callback)
    \/ \E jobId \in JobIds, progress \in Progresses :
          PTUpdateProgress(jobId, progress)
    \/ \E jobId \in JobIds : PTCompleteProgress(jobId)
    \/ \E jobId \in JobIds : PTRemoveProgress(jobId)

(***************************************************************************)
(* Callers of validateFile                                                 *)
(***************************************************************************)
NameBat == <<"r", ".", "B", "A", "T">>
NameCmd == <<"c", ".", "C", "m", "D">>
NameScr == <<"s", ".", "s", "c", "r">>
NameExePdf == <<"a", ".", "e", "x", "e", ".", "p", "d", "f">>
NameLongExe == Repeat("a", 252) \o <<".", "E", "X", "E">>

ValNames ==
    {NamePdf, NameMax, NameLong, NameExe, NameBat, NameCmd, NameScr,
     NameExePdf, NameLongExe}

ValTypes == {MimePdf, "image/png", "application/x-msdownload"}

ValSizes == {1024, 10 * MB, 10 * MB + 1}

ValAllowLists == {{MimePdf}, ImageTypes, {"*/*"}}

ValMaxSizes == {10 * MB, 100 * MB}

NoValCall ==
    [op |-> "none", file |-> NoFile, allowedTypes |-> {}, maxSize |-> 0,
     result |-> NoValidation, calls |-> 0, previous |-> NoValidation]

\* const errors: string[] = [] : the error list a call starts with, #kept#
\* being the list the call before it returned
ErrorsKept(kept) == kept
ErrorsAtEntry(kept) == <<>>

\* the ValidationResult a validateFile call returns
ValidateFileResult(kept, file, allowedTypes, maxSize) ==
    LET errors == ErrorsAtEntry(kept)
                     \o ValidateFile(file, allowedTypes, maxSize).errors
    IN  [isValid |-> Len(errors) = 0, errors |-> errors]

\* validateFile(file, allowedTypes, maxSize) is called and returns
ValidateFileCall(file, allowedTypes, maxSize) ==
    /\ valCall' = [op |-> "validateFile", file |-> file,
                   allowedTypes |-> allowedTypes, maxSize |-> maxSize,
                   result |-> ValidateFileResult(valCall.result.errors, file,
                                                 allowedTypes, maxSize),
                   calls |-> 1, previous |-> NoValidation]
    /\ UNCHANGED contentCall
    /\ UNCHANGED <<rlVars, fpVars, ptVars, uiVars>>

\* validateFile is called again with the file and the arguments of the call
\* before
ValidateFileAgain ==
    /\ valCall.op = "validateFile"
    /\ valCall.calls < MaxValCalls
    /\ valCall' = [valCall EXCEPT
          !.result = ValidateFileResult(valCall.result.errors, valCall.file,
                        valCall.allowedTypes, valCall.maxSize),
          !.calls = valCall.calls + 1,
          !.previous = valCall.result]
    /\ UNCHANGED contentCall
    /\ UNCHANGED <<rlVars, fpVars, ptVars, uiVars>>

\* leading bytes of the files handed to validateFileContent
ContentBytes ==
    { <<>>, <<37, 80>>, PdfSig, PdfSig \o <<45, 49, 46, 55>>, JpegSig,
      <<255, 216>>, PngSig, <<137, 80, 78, 70>>, ZipSig,
      ZipSig \o Repeat(0, 16), <<0>> \o PdfSig }

ContentTypes ==
    { MimePdf, "image/jpeg", "image/png", "application/zip", MimeDocx,
      MimeXlsx, "image/gif", "text/plain", "" }

NoContentCall == [op |-> "none", file |-> NoFile, result |-> FALSE]

\* SecurityValidator.validateFileContent(file) is called and resolves
ValidateFileContentCall(file) ==
    /\ contentCall' = [op |-> "validateFileContent", file |-> file,
                       result |-> ValidateFileContent(file)]
    /\ UNCHANGED valCall
    /\ UNCHANGED <<rlVars, fpVars, ptVars, uiVars>>

InitVal ==
    /\ valCall = NoValCall
    /\ contentCall = NoContentCall

NextVal ==
    \/ \E name \in ValNames, type \in ValTypes, size \in ValSizes,
          allowedTypes \in ValAllowLists, maxSize \in ValMaxSizes :
             ValidateFileCall(MkFile(name, type, size, <<>>, TRUE),
                              allowedTypes, maxSize)
    \/ ValidateFileAgain

NextContent ==
    \E type \in ContentTypes, bytes \in ContentBytes, readable \in BOOLEAN :
       ValidateFileContentCall(MkFile(NamePdf, type, 1024, bytes, readable))

(***************************************************************************)
(* EnhancedToolInterface and the processing store                          *)
(***************************************************************************)
Attempts == 1..MaxAttempts

\* tool.id and tool.maxFiles of the tools the interface is opened for
UiTools ==
    { [id |-> "merge-pdf", maxFiles |-> 20],
      [id |-> "compress-pdf", maxFiles |-> 1] }

\* getUserId()
UserId == Primary

\* the job id handleProcess draws for its a-th call
UiJobIdOf(a) == "ui" \o ToString(a)

\* the i-th file of the list
FileName(i) == "f" \o ToString(i)

\* Math.random() * 5 of an interval firing, in whole points
RandomSteps == {1, 4}

NoUiCall == [file |-> "none", toolId |-> "none", additionalFiles |-> <<>>]

NoAttempt ==
    [pc |-> "idle", toolId |-> "none", allowed |-> "none", jobId |-> "none",
     call |-> NoUiCall, outcome |-> NoOutcome]

\* the pages of the PDF documents #files#, in order
RECURSIVE PagesOf(_)
PagesOf(files) ==
    IF Len(files) = 0 THEN <<>>
    ELSE <<[file |-> Head(files), page |-> 1]>> \o PagesOf(Tail(files))

\* processFileByTool, case 'merge-pdf': the files handed to mergePDFs
MergeInputs(file, additionalFiles) == <<file>>

\* the ProcessedFile processFile resolves with: for mergePDFs the pages
\* copied from its input files, in order
ProcessedFileOf(call) ==
    IF call.toolId = "merge-pdf"
    THEN [mimeType |-> MimePdf,
          pages |-> PagesOf(MergeInputs(call.file, call.additionalFiles))]
    ELSE [mimeType |-> MimePdf, pages |-> PagesOf(<<call.file>>)]

\* the arguments handleProcess calls processFile with
UiCallOf(tool, files) ==
    IF tool.maxFiles = 1
    THEN [file |-> files[1], toolId |-> tool.id, additionalFiles |-> <<>>]
    ELSE [file |-> files[1], toolId |-> tool.id,
          additionalFiles |-> Tail(files)]

\* useProcessingStore.addJob
AddJob(jobs, jobId) ==
    [j \in DOMAIN jobs \cup {jobId} |->
        IF j = jobId THEN [status |-> "processing", progress |-> 0]
        ELSE jobs[j]]

\* useProcessingStore.updateProgress; status "none" is an omitted argument
StoreUpdateProgress(jobs, jobId, progress, status) ==
    [j \in DOMAIN jobs |->
        IF j = jobId
        THEN [status |-> IF status = "none" THEN jobs[j].status ELSE status,
              progress |-> progress]
        ELSE jobs[j]]

\* handleProcess goes on after rateLimiter.isAllowed returned #ok#
PassesGateAlways(ok) == TRUE
PassesGate(ok) == ok

\* onDrop: the rate limiter is asked, then the accepted files that pass
\* validateFile are appended to the list
OnDrop(added) ==
    /\ Len(uiFiles) + added <= MaxFiles
    /\ IsAllowedStep(UserId)
    /\ uiFiles' = IF rlCall'.ok
                  THEN uiFiles \o [i \in 1..added |-> FileName(Len(uiFiles) + i)]
                  ELSE uiFiles
    /\ UNCHANGED <<uiProgress, uiAttempts, uiJobs, uiTimers, uiTicks>>
    /\ UNCHANGED <<fpVars, ptVars, valVars>>

\* handleProcess up to its await: the file list and the rate limiter are
\* checked, the job is added to the store, the interval timer is started and
\* processFile is called
HandleProcess(a, tool) ==
    /\ uiAttempts[a].pc = "idle"
    /\ IF Len(uiFiles) = 0
       THEN /\ uiAttempts' = [uiAttempts EXCEPT ![a] =
                  [@ EXCEPT !.pc = "returned", !.toolId = tool.id]]
            /\ UNCHANGED <<uiProgress, uiJobs, uiTimers>>
            /\ UNCHANGED rlVars
       ELSE /\ IsAllowedStep(UserId)
            /\ IF PassesGate(rlCall'.ok)
               THEN /\ uiAttempts' = [uiAttempts EXCEPT ![a] =
                          [@ EXCEPT !.pc = "awaiting", !.toolId = tool.id,
                             !.allowed = IF rlCall'.ok THEN "yes" ELSE "no",
                             !.jobId = UiJobIdOf(a),
                             !.call = UiCallOf(tool, uiFiles)]]
                    /\ uiProgress' = 0
                    /\ uiJobs' = AddJob(uiJobs, UiJobIdOf(a))
                    /\ uiTimers' = uiTimers \cup {UiJobIdOf(a)}
               ELSE /\ uiAttempts' = [uiAttempts EXCEPT ![a] =
                          [@ EXCEPT !.pc = "returned", !.toolId = tool.id,
                             !.allowed = "no"]]
                    /\ UNCHANGED <<uiProgress, uiJobs, uiTimers>>
    /\ UNCHANGED <<uiFiles, uiTicks>>
    /\ UNCHANGED <<fpVars, ptVars, valVars>>

\* the interval timer of a job fires: setProgress and the store's
\* updateProgress(jobId, newProgress)
IntervalFires(jobId) ==
    /\ jobId \in uiTimers
    /\ uiTicks < MaxIntervalTicks
    /\ \E step \in RandomSteps :
          LET newProgress == MinOf(uiProgress + step, 95)
          IN  /\ uiProgress' = newProgress
              /\ uiJobs' = StoreUpdateProgress(uiJobs, jobId, newProgress,
                                               "none")
    /\ uiTicks' = uiTicks + 1
    /\ UNCHANGED <<uiFiles, uiAttempts, uiTimers>>
    /\ UNCHANGED <<rlVars, fpVars, ptVars, valVars>>

\* processFile resolves: clearInterval, then the job is marked completed
ProcessFileResolved(a) ==
    LET attempt == uiAttempts[a]
    IN  /\ attempt.pc = "awaiting"
        /\ uiTimers' = uiTimers \ {attempt.jobId}
        /\ uiProgress' = 100
        /\ uiJobs' = StoreUpdateProgress(uiJobs, attempt.jobId, 100,
                                         "completed")
        /\ uiAttempts' = [uiAttempts EXCEPT ![a] =
              [@ EXCEPT !.pc = "completed",
                 !.outcome = [kind |-> "resolved",
                              result |-> ProcessedFileOf(attempt.call)]]]
        /\ UNCHANGED <<uiFiles, uiTicks>>
        /\ UNCHANGED <<rlVars, fpVars, ptVars, valVars>>

\* processFile rejects: the catch block marks the job failed
ProcessFileRejected(a) ==
    LET attempt == uiAttempts[a]
    IN  /\ attempt.pc = "awaiting"
        /\ uiJobs' = StoreUpdateProgress(uiJobs, attempt.jobId, 0, "failed")
        /\ uiAttempts' = [uiAttempts EXCEPT ![a] =
              [@ EXCEPT !.pc = "failed",
                 !.outcome = [kind |-> "rejected"]]]
        /\ UNCHANGED <<uiFiles, uiProgress, uiTimers, uiTicks>>
        /\ UNCHANGED <<rlVars, fpVars, ptVars, valVars>>

InitUI ==
    /\ uiFiles = <<>>
    /\ uiProgress = 0
    /\ uiAttempts = [a \in Attempts |-> NoAttempt]
    /\ uiJobs = [j \in {} |-> [status |-> "none", progress |-> 0]]
    /\ uiTimers = {}
    /\ uiTicks = 0

NextUI ==
    \/ \E added \in 0..MaxFiles : OnDrop(added)
    \/ \E a \in Attempts, tool \in UiTools : HandleProcess(a, tool)
    \/ \E a \in Attempts : IntervalFires(UiJobIdOf(a))
    \/ \E a \in Attempts : ProcessFileResolved(a)
    \/ \E a \in Attempts : ProcessFileRejected(a)

(***************************************************************************)
(* Specifications                                                          *)
(***************************************************************************)
Init == InitRL /\ InitFP /\ InitPT /\ InitVal /\ InitUI

\* the rate limiter under any sequence of calls and clock advances
SpecRL == Init /\ [][NextRL]_vars

\* processFile calls with any file and tool id, every awaited operation
\* succeeding or failing
SpecFP == Init /\ [][NextFP]_vars

\* every promise that can settle does: validateFileForTool resolves, a
\* rejected dispatch reaches the catch block, and the operation a routine
\* waits for succeeds or fails
FairnessFP ==
    \A c \in Calls :
        /\ WF_vars(ValidationDone(c))
        /\ WF_vars(DispatchRejected(c))
        /\ WF_vars(RoutineStep(c) \/ RoutineFail(c))

\* processFile calls whose awaited operations all settle
SpecFPLive == Init /\ [][NextFP]_vars /\ FairnessFP

\* the files of the processFile calls a subscriber follows
TrackedFiles ==
    { MkFile(NamePdf, MimePdf, 1024, PdfSig \o <<45, 49>>, TRUE),
      MkFile(NameExe, MimePdf, 1024, PdfSig, TRUE),
      MkFile(NamePng, "image/png", 1024, PngSig, TRUE),
      MkFile(NameTxt, "*/*", 1024, <<104, 105>>, TRUE) }

NextFPT ==
    \/ \E c \in Calls, file \in TrackedFiles, toolId \in ToolIds,
          numPages \in 1..MaxPages : ProcessFile(c, file, toolId, numPages)
    \/ \E c \in Calls : ValidationDone(c)
    \/ \E c \in Calls : DispatchRejected(c)
    \/ \E c \in Calls : RoutineStep(c)
    \/ \E c \in Calls : RoutineFail(c)
    \/ \E c \in Calls : CallSettled(c)
    \/ \E c \in Calls : Subscribe(c)

\* processFile calls followed by a subscriber that registers callbacks for
\* the job ids of calls in flight
SpecFPT == Init /\ [][NextFPT]_vars

\* the exported tracker under any sequence of calls
SpecPT == Init /\ [][NextPT]_vars

\* validateFile under any call
SpecVal == Init /\ [][NextVal]_vars

\* validateFileContent under any call
SpecContent == Init /\ [][NextContent]_vars

\* the tool interface under any sequence of drops, processing attempts,
\* timer firings and processFile outcomes
SpecUI == Init /\ [][NextUI]_vars

(***************************************************************************)
(* Properties of processFile                                               *)
(***************************************************************************)
\* the call has left validation
Validated(call) == call.pc \in {"processing", "completed", "failed"}

HasDangerousExtension(name) ==
    \E pattern \in DangerousPatterns : EndsWithNoCase(name, pattern)

\* C1: a call whose file fails validation for its tool, in particular one
\* whose file is larger than the tool's maxSize, ends rejected without any
\* tool routine having been invoked
C1_InvalidNeverReachesRoutine ==
    \A c \in Calls :
        LET call == calls[c]
        IN  (/\ Validated(call)
             /\ \/ ~call.validation.isValid
                \/ call.file.size > GetToolConfig(call.toolId).maxSize)
            => /\ call.pc = "failed"
               /\ call.outcome.kind = "rejected"
               /\ call.invoked = <<>>

C1_Witness ==
    \E c \in Calls :
        LET call == calls[c]
        IN  /\ call.pc = "failed"
            /\ call.toolId \in KnownTools
            /\ call.file.type \in GetToolConfig(call.toolId).allowedTypes
            /\ ValidateFileContent(call.file)
            /\ call.file.size > GetToolConfig(call.toolId).maxSize
            /\ call.invoked = <<>>

\* C2: when validation produced an error, the error the caller observes has
\* code VALIDATION_ERROR and recoverable = true
C2_ValidationErrorCode ==
    \A c \in Calls :
        LET call == calls[c]
        IN  (call.pc = "failed" /\ ~call.validation.isValid)
            => /\ call.outcome.error.code = "VALIDATION_ERROR"
               /\ call.outcome.error.recoverable = TRUE

\* C3: a call with an unknown tool id fails with code TOOL_NOT_FOUND and
\* recoverable = false
C3_UnknownToolNotFound ==
    \A c \in Calls :
        LET call == calls[c]
        IN  (Validated(call) /\ call.toolId \notin KnownTools)
            => /\ call.pc = "failed" => 
                    /\ call.outcome.error.code = "TOOL_NOT_FOUND"
                    /\ call.outcome.error.recoverable = FALSE
               /\ call.pc # "completed"

\* C9: whatever fails inside processFile, the value the caller's promise
\* rejects with is a ProcessingError built by the ErrorHandler, and a failed
\* call always rejects
C9_OnlyHandlerErrorsEscape ==
    \A c \in Calls :
        LET call == calls[c]
        IN  /\ call.pc = "failed" <=> call.outcome.kind = "rejected"
            /\ call.outcome.kind = "rejected" =>
                  /\ call.outcome.error.name = "ProcessingError"
                  /\ call.outcome.error.by = "ErrorHandler"
                  /\ call.outcome.error # call.thrown

C9_Witness ==
    \E c \in Calls :
        LET call == calls[c]
        IN  /\ call.pc = "failed"
            /\ Len(call.invoked) = 1
            /\ call.stage > 0
            /\ call.thrown.by = "vendor"
            /\ call.outcome.error.by = "ErrorHandler"

\* C10: for a tool id without registry entry, a file of any declared type
\* with size <= 100MB, a name of at most 255 characters and no dangerous
\* extension passes metadata validation
C10_DefaultConfigPermissive ==
    \A c \in Calls :
        LET call == calls[c]
            toolConfig == GetToolConfig(call.toolId)
        IN  (/\ Validated(call)
             /\ call.toolId \notin KnownTools
             /\ call.file.size <= 100 * MB
             /\ Len(call.file.name) <= 255
             /\ ~HasDangerousExtension(call.file.name))
            => ValidateFile(call.file, toolConfig.allowedTypes,
                            toolConfig.maxSize).isValid


(***************************************************************************)
(* Properties of the job life cycle and of progress registrations          *)
(***************************************************************************)
Terminal == {"completed", "failed"}

\* the steps of a job's state; a settled call releases its slot
PcStep(from, to) ==
    \/ to = from
    \/ from = "idle" /\ to = "validating"
    \/ from = "validating" /\ to \in {"processing", "failed"}
    \/ from = "processing" /\ to \in Terminal
    \/ from \in Terminal /\ to = "idle"

\* the call fails in this step with no tool routine invoked
FailsWithoutRoutine(c) ==
    /\ calls[c].pc # "failed"
    /\ calls'[c].pc = "failed"
    /\ calls'[c].invoked = <<>>

\* C11 as stated: a job reaches failed without any tool routine having been
\* invoked only by the validating-to-failed transition
C11_FailedWithoutRoutineOnlyFromValidating ==
    [][\A c \in Calls : FailsWithoutRoutine(c) => calls[c].pc = "validating"]_vars

\* C11 as the code has it: a job goes through validating and processing to
\* exactly one terminal state, which it never leaves, with at most one tool
\* routine invoked; it reaches failed with no routine invoked only from
\* validating, or from processing when the tool id is not a known tool
C11_JobLifecycle ==
    [][\A c \in Calls :
          /\ PcStep(calls[c].pc, calls'[c].pc)
          /\ calls[c].pc \in Terminal /\ calls'[c].pc \in Terminal
                => calls'[c] = calls[c]
          /\ Len(calls'[c].invoked) <= 1
          /\ calls[c].pc = "processing"
                => calls'[c].invoked = calls[c].invoked
          /\ FailsWithoutRoutine(c)
                => \/ calls[c].pc = "validating"
                   \/ /\ calls[c].pc = "processing"
                      /\ calls[c].toolId \notin KnownTools]_vars

\* a call whose file passed validation failed in the dispatch, no routine
\* invoked
C11_Witness ==
    \E c \in Calls :
        /\ calls[c].pc = "failed"
        /\ calls[c].validation.isValid
        /\ calls[c].invoked = <<>>
        /\ calls[c].toolId \notin KnownTools
        /\ calls[c].thrown.code = "TOOL_NOT_FOUND"

\* C12: while the tool routine of a call runs, a callback is registered for
\* the call's job id in the tracker the routine updates
C12_RegisteredWhileRoutineRuns ==
    \A c \in Calls :
        Running(calls[c]) => Registered(progressCallbacks, JobIdOf(c))

\* C13: the job ids registered in the processor's tracker are job ids of
\* processFile calls in flight; none remains for a call that has returned or
\* thrown
C13_RegistrationsRequestScoped ==
    /\ DOMAIN progressCallbacks \subseteq {JobIdOf(c) : c \in Calls}
    /\ \A c \in Calls :
          Registered(progressCallbacks, JobIdOf(c))
             => calls[c].pc \in {"validating", "processing"}

\* a call has returned after progress was delivered to its subscriber, and
\* its registration is gone
C13_Witness ==
    \E c \in Calls :
        /\ calls[c].pc = "completed"
        /\ Len(calls[c].delivered) > 0
        /\ calls[c].delivered[Len(calls[c].delivered)].value = Num(100)
        /\ ~Registered(progressCallbacks, JobIdOf(c))

(***************************************************************************)
(* Properties of the progress tracker                                      *)
(***************************************************************************)
\* v is a number of the interval [0, 100]
InRange(v) == ~IsNaN(v) /\ LessEq(Num(0), v) /\ LessEq(v, Num(100))

\* the last tracker call was op, for a job id registered before it
CalledRegistered(op) ==
    ptCall.op = op /\ Registered(ptCall.pre, ptCall.jobId)

\* C14: updateProgress for a registered job id invokes its callback exactly
\* once, with the input clamped to [0, 100]: 100 for an input above 100, 0
\* for an input below 0, the input itself inside the range
C14_UpdateDeliversClamped ==
    CalledRegistered("updateProgress")
       => /\ Len(ptCall.invoked) = 1
          /\ ptCall.invoked[1].callback = ptCall.pre[ptCall.jobId]
          /\ InRange(ptCall.invoked[1].value)
          /\ InRange(ptCall.progress)
                => ptCall.invoked[1].value = ptCall.progress
          /\ ~IsNaN(ptCall.progress) /\ ~LessEq(ptCall.progress, Num(100))
                => ptCall.invoked[1].value = Num(100)
          /\ ~IsNaN(ptCall.progress) /\ ~LessEq(Num(0), ptCall.progress)
                => ptCall.invoked[1].value = Num(0)

\* C15: completeProgress delivers 100 once to the callback registered for the
\* job id, if any, and deregisters it; later updateProgress and
\* completeProgress calls for the id invoke nothing until a new trackProgress
C15_CompleteDeliversThenDeregisters ==
    /\ ptCall.op = "completeProgress"
          => /\ ptCall.invoked =
                   IF Registered(ptCall.pre, ptCall.jobId)
                   THEN << [callback |-> ptCall.pre[ptCall.jobId],
                            value |-> Num(100)] >>
                   ELSE <<>>
             /\ ~Registered(ptCallbacks, ptCall.jobId)
    /\ (/\ ptCall.op \in {"updateProgress", "completeProgress"}
        /\ ptCall.last[ptCall.jobId] = "completed")
          => ptCall.invoked = <<>>

\* completeProgress ran for a registered job id
C15_Witness ==
    /\ CalledRegistered("completeProgress")
    /\ Len(ptCall.invoked) = 1
    /\ ptCall.invoked[1].value = Num(100)
    /\ ~Registered(ptCallbacks, ptCall.jobId)

\* C16: removeProgress deregisters the callback of the job id without
\* invoking it and leaves the other registrations as they were; after it
\* updateProgress for the id invokes nothing
C16_RemoveSilentAndFramed ==
    /\ ptCall.op = "removeProgress"
          => /\ ptCall.invoked = <<>>
             /\ ~Registered(ptCallbacks, ptCall.jobId)
             /\ \A j \in JobIds \ {ptCall.jobId} :
                   /\ Registered(ptCallbacks, j) = Registered(ptCall.pre, j)
                   /\ Registered(ptCall.pre, j)
                         => ptCallbacks[j] = ptCall.pre[j]
    /\ ptCall.op = "updateProgress" /\ ptCall.last[ptCall.jobId] = "removed"
          => ptCall.invoked = <<>>

\* removeProgress ran for a registered job id while another was registered
C16_Witness ==
    /\ CalledRegistered("removeProgress")
    /\ \E j \in JobIds \ {ptCall.jobId} : Registered(ptCallbacks, j)
    /\ ptCall.invoked = <<>>

\* C17: one callback per job id, the one of the last trackProgress; updates
\* go to it only and never to a callback it replaced
C17_LastRegistrationWins ==
    /\ \A j \in DOMAIN ptCallbacks : ptCallbacks[j] = ptTracked[j]
    /\ Len(ptCall.invoked) <= 1
    /\ \A i \in 1..Len(ptCall.invoked) :
          /\ ptCall.invoked[i].callback = ptCall.tracked[ptCall.jobId]
          /\ ptCall.invoked[i].callback \notin ptCall.replaced[ptCall.jobId]

\* an update was delivered for a job id whose first callback was replaced
C17_Witness ==
    /\ ptCall.op = "updateProgress"
    /\ Len(ptCall.invoked) = 1
    /\ ptCall.replaced[ptCall.jobId] # {}

\* C18: updateProgress for a job id with no registered callback raises no
\* error, invokes no callback and leaves the registrations unchanged
C18_UpdateUnregisteredNoOp ==
    ptCall.op = "updateProgress" /\ ~Registered(ptCall.pre, ptCall.jobId)
       => /\ ~ptCall.threw
          /\ ptCall.invoked = <<>>
          /\ ptCallbacks = ptCall.pre

\* updateProgress ran for an unregistered job id while another job id had a
\* callback
C18_Witness ==
    /\ ptCall.op = "updateProgress"
    /\ ~Registered(ptCall.pre, ptCall.jobId)
    /\ DOMAIN ptCall.pre # {}
    /\ ptCall.invoked = <<>>

(***************************************************************************)
(* Properties of validateFile                                              *)
(***************************************************************************)
\* the names of ValNames that end in .exe, .bat, .cmd or .scr in some case
DangerousNames == {NameExe, NameBat, NameCmd, NameScr, NameLongExe}

DangerousError == <<"File type not allowed for security reasons">>

\* the checks the file of the last validateFile call fails
FailsType == valCall.file.type \notin valCall.allowedTypes
FailsSize == valCall.file.size > valCall.maxSize
FailsName == Len(valCall.file.name) > 255
FailsDangerous == valCall.file.name \in DangerousNames

\* the kind of an error message
ErrorKind(error) ==
    CASE error[1] = "File type " -> 1
      [] error[1] = "File size exceeds " -> 2
      [] error[1] = "File name too long" -> 3
      [] error = DangerousError -> 4
      [] OTHER -> 0

\* C19: validateFile runs all four checks and collects one error per failed
\* check, in the order type, size, name length, dangerous extension, the type
\* error naming the declared type; isValid is true iff there is no error
C19_AllChecksCollected ==
    valCall.op = "validateFile" =>
        LET errors == valCall.result.errors
            kinds == {ErrorKind(errors[i]) : i \in 1..Len(errors)}
        IN  /\ kinds = {k \in 1..4 :
                          \/ k = 1 /\ FailsType
                          \/ k = 2 /\ FailsSize
                          \/ k = 3 /\ FailsName
                          \/ k = 4 /\ FailsDangerous}
            /\ \A i, j \in 1..Len(errors) :
                  i < j => ErrorKind(errors[i]) < ErrorKind(errors[j])
            /\ \A i \in 1..Len(errors) :
                  ErrorKind(errors[i]) = 1 => errors[i][2] = valCall.file.type
            /\ valCall.result.isValid = (Len(errors) = 0)

\* a file failed all four checks and got the four errors
C19_Witness ==
    /\ valCall.op = "validateFile"
    /\ FailsType /\ FailsSize /\ FailsName /\ FailsDangerous
    /\ Len(valCall.result.errors) = 4
    /\ ~valCall.result.isValid

\* C20: a file whose name ends in .exe, .bat, .cmd or .scr, in any letter
\* case, is rejected by the dangerous-filename check whatever its type
C20_DangerousNameRejected ==
    valCall.op = "validateFile" /\ valCall.file.name \in DangerousNames
       => /\ ~valCall.result.isValid
          /\ \E i \in 1..Len(valCall.result.errors) :
                valCall.result.errors[i] = DangerousError

\* m.Exe declared as application/pdf, type allowed and size within the limit,
\* was rejected by the dangerous-filename check alone
C20_Witness ==
    /\ valCall.op = "validateFile"
    /\ valCall.file.name = NameExe
    /\ valCall.file.type = MimePdf
    /\ ~FailsType /\ ~FailsSize
    /\ valCall.result.errors = <<DangerousError>>
    /\ ~valCall.result.isValid

SignedTypes ==
    {MimePdf, "image/jpeg", "image/png", "application/zip", MimeDocx, MimeXlsx}

SignatureBytes(type) ==
    IF type = MimePdf THEN <<37, 80, 68, 70>>
    ELSE IF type = "image/jpeg" THEN <<255, 216, 255>>
    ELSE IF type = "image/png" THEN <<137, 80, 78, 71>>
    ELSE <<80, 75, 3, 4>>

LeadingBytesAre(bytes, signature) ==
    /\ Len(bytes) >= Len(signature)
    /\ SubSeq(bytes, 1, Len(signature)) = signature

\* C22: validateFileContent rejects an unreadable file; it accepts a readable
\* file of a type with no known signature, and a readable file of a type with
\* a known signature iff its leading bytes are that signature
C22_ContentMatchesSignature ==
    contentCall.op = "validateFileContent" =>
        LET file == contentCall.file
        IN  contentCall.result =
               /\ file.readable
               /\ \/ file.type \notin SignedTypes
                  \/ LeadingBytesAre(file.bytes, SignatureBytes(file.type))

\* a file declared as PDF that is shorter than the signature was rejected
C22_Witness ==
    /\ contentCall.op = "validateFileContent"
    /\ contentCall.file.readable
    /\ contentCall.file.type = MimePdf
    /\ contentCall.file.bytes = <<37, 80>>
    /\ ~contentCall.result

(***************************************************************************)
(* Properties of error classification and of progress order                *)
(***************************************************************************)
\* C23: the error processFile rejects with is not recoverable exactly when
\* the name of the error caught is QuotaExceededError, SecurityError or
\* NotSupportedError
C23_NonRecoverableByName ==
    \A c \in Calls :
        calls[c].pc = "failed" =>
            (calls[c].outcome.error.recoverable
                <=> calls[c].thrown.name \notin
                      {"QuotaExceededError", "SecurityError",
                       "NotSupportedError"})

\* a canvas SecurityError was classified as not recoverable
C23_Witness ==
    \E c \in Calls :
        /\ calls[c].pc = "failed"
        /\ calls[c].thrown.name = "SecurityError"
        /\ ~calls[c].outcome.error.recoverable

\* the progress values never go down
NonDecreasing(values) ==
    \A i \in 1..Len(values) - 1 : LessEq(values[i], values[i + 1])

C25_MergeIncludesAdditionalFiles ==
    \A a \in Attempts :
        LET attempt == uiAttempts[a]
        IN  attempt.pc = "completed" /\ attempt.call.toolId = "merge-pdf"
               => attempt.outcome.result.pages =
                     PagesOf(<<attempt.call.file>>
                                \o attempt.call.additionalFiles)

\* C26: processFile is called, and a job added to the store, only in an
\* attempt for which isAllowed returned true; an attempt for which it
\* returned false calls nothing and adds no job
C26_RateLimiterGates ==
    /\ \A a \in Attempts :
          LET attempt == uiAttempts[a]
          IN  /\ attempt.call # NoUiCall => attempt.allowed = "yes"
              /\ attempt.allowed = "no"
                    => /\ attempt.call = NoUiCall
                       /\ attempt.pc = "returned"
                       /\ UiJobIdOf(a) \notin DOMAIN uiJobs
    /\ DOMAIN uiJobs =
          {UiJobIdOf(a) : a \in {b \in Attempts : uiAttempts[b].allowed = "yes"}}

\* an attempt made with files in the list was refused by the rate limiter
C26_Witness ==
    \E a \in Attempts :
        /\ uiAttempts[a].pc = "returned"
        /\ uiAttempts[a].allowed = "no"
        /\ Len(uiFiles) > 0
        /\ Len(requests[UserId]) = maxRequests
        /\ UiJobIdOf(a) \notin DOMAIN uiJobs

\* C29: once a job is marked failed or completed in the store, no later
\* store update changes its progress or status
C29_SettledJobFrozen ==
    [][\A j \in DOMAIN uiJobs :
          uiJobs[j].status \in {"failed", "completed"}
             => j \in DOMAIN uiJobs' /\ uiJobs'[j] = uiJobs[j]]_vars

(***************************************************************************)
(* Properties of the rate limiter's window                                 *)
(***************************************************************************)
\* the entries of list s inside the half-open interval of length windowMs
\* that ends with time t
InIntervalEndingAt(s, t) == {i \in 1..Len(s) : t - windowMs < s[i] /\ s[i] <= t}

C30_ResetTimeAfterRejection ==
    /\ rlCall.op = "getResetTime" /\ lastReject[rlCall.id].at = rlCall.at
          => rlCall.val > rlCall.at
    /\ (/\ IsAllowedCall
        /\ rlCall.afterReject
        /\ rlCall.retryOf.reset = rlCall.at)
          => rlCall.ok

\* a rejected caller asked for the reset time, waited until then and was
\* allowed
C30_Witness ==
    /\ IsAllowedCall
    /\ rlCall.afterReject
    /\ rlCall.retryOf.at >= 0
    /\ rlCall.retryOf.at < rlCall.at
    /\ rlCall.retryOf.reset = rlCall.at
    /\ rlCall.ok

(***************************************************************************)
(* Termination of processFile                                              *)
(***************************************************************************)
\* C28: every processFile call eventually settles, every operation it waits
\* for settling by success or failure
C28_EveryCallSettles ==
    \A c \in Calls :
        (calls[c].pc = "validating") ~> (calls[c].pc \in Terminal)

====
